---- MODULE Spec2Model ----
(***************************************************************************)
(* Model of the call-graph query engine (tools_7d2d/graph.py) and of the   *)
(* mod compatibility check (tools_7d2d/compat.py over tools_7d2d/db.py).   *)
(*                                                                         *)
(* The CallGraph object is the three fields _graph, _id_to_vertex and      *)
(* _vertex_to_id; the database is the calls table (edges) and the two mod  *)
(* tables (harmony_patches, xml_changes).  Every public method is one      *)
(* action; its return value is recorded in ret (graph queries) or report   *)
(* (check_compatibility).                                                  *)
(***************************************************************************)
EXTENDS Integers, Sequences, FiniteSets, TLC

VARIABLES
    edges,            \* rows of "SELECT caller_id, callee_id FROM calls"
    _graph,           \* CallGraph._graph: None or the igraph Graph
    _id_to_vertex,    \* CallGraph._id_to_vertex
    _vertex_to_id,    \* CallGraph._vertex_to_id
    ret,              \* the last CallGraph call and what it returned
    harmony_patches,  \* rows of the harmony_patches table
    xml_changes,      \* rows of the xml_changes table
    report,           \* the last check_compatibility call and its report
    methods,          \* rows of the methods table joined with types, by id
    path_result,      \* the last build_path_result call and its result
    threads,          \* the call each thread is in and how far it has got
    frames,           \* the local variables of the calls in progress
    stack,            \* the calls of _find_paths_recursive in progress
    results           \* the results list the calls of one search append to

graphVars == <<edges, _graph, _id_to_vertex, _vertex_to_id, ret>>
compatVars == <<harmony_patches, xml_changes, report>>
renderVars == <<methods, path_result>>
threadVars == <<threads, frames>>
walkVars == <<stack, results>>
vars == <<edges, _graph, _id_to_vertex, _vertex_to_id, ret,
          harmony_patches, xml_changes, report,
          methods, path_result, threads, frames, stack, results>>

(***************************************************************************)
(* Bounds                                                                  *)
(***************************************************************************)
\* calls tables of the general graph specification
MaxId == 3
MaxEdges == 3
\* calls tables of the specification of find_all_paths
MaxPathId == 4
MaxPathEdges == 4

\* The calls tables with ids 1..maxId and at most maxEdges rows, in a
\* canonical row order (rows non-decreasing by (caller_id, callee_id));
\* repeated rows are allowed.
PairLeq(p, q) == p[1] < q[1] \/ (p[1] = q[1] /\ p[2] <= q[2])
RECURSIVE EdgeListsOver(_, _)
EdgeListsOver(maxId, maxEdges) ==
    IF maxEdges = 0 THEN { <<>> }
    ELSE LET shorter == EdgeListsOver(maxId, maxEdges - 1)
             longest == { s \in shorter : Len(s) = maxEdges - 1 }
         IN  shorter \cup
             { t \in { Append(s, p) : s \in longest,
                                      p \in (1..maxId) \X (1..maxId) } :
                 Len(t) < 2 \/ PairLeq(t[Len(t) - 1], t[Len(t)]) }

\* Strings are sequences of characters, so that GROUP_CONCAT, str.split and
\* the target formatting are computed character by character.  No name
\* holds a comma.
MaxPatches == 3
MaxXmlChanges == 2

ModNames == { <<"A">>, <<"B">>, <<"A", "B">> }
TypeNames == { <<"T">> }
MethodNames == { <<"M">>, <<"N">> }
FileNames == { <<"f">> }
XPaths == { <<"x">> }

PatchRows ==
    [mod_name : ModNames, target_type : TypeNames, target_method : MethodNames]
XmlRows == [mod_name : ModNames, file_name : FileNames, xpath : XPaths]
SeqsUpTo(S, n) == UNION { [1..k -> S] : k \in 0..n }

\* the requested mods: one list per subset of the mod names
ModLists ==
    { <<>>, << <<"A">> >>, << <<"B">> >>, << <<"A", "B">> >>,
      << <<"A">>, <<"B">> >>, << <<"A">>, <<"A", "B">> >>,
      << <<"B">>, <<"A", "B">> >>,
      << <<"A">>, <<"B">>, <<"A", "B">> >> }

(***************************************************************************)
(* Generic sequence helpers                                                *)
(***************************************************************************)
Range(s) == { s[i] : i \in DOMAIN s }
Repeat(e, k) == [i \in 1..k |-> e]
Last(s) == s[Len(s)]

(***************************************************************************)
(* CallGraph.load                                                          *)
(***************************************************************************)
\* graph.py 27-30: the set of ids that occur as caller or callee
CollectMethodIds(es) ==
    { es[i][1] : i \in DOMAIN es } \cup { es[i][2] : i \in DOMAIN es }

\* Mutant: the ids are numbered in the order the edge list first shows them
\* (no sorted())
IdToVertexOf_first_seen(es) ==
    LET ids == CollectMethodIds(es)
        flat == [i \in 1..(2 * Len(es)) |->
                    es[(i + 1) \div 2][IF i % 2 = 1 THEN 1 ELSE 2]]
        first(mid) == CHOOSE i \in DOMAIN flat :
                          flat[i] = mid /\ \A j \in 1..(i - 1) : flat[j] # mid
    IN  [mid \in ids |-> Cardinality({ o \in ids : first(o) < first(mid) })]

\* graph.py 33-34: enumerate(sorted(method_ids)) gives each id the number of
\* smaller ids as its index
IdToVertexOf(es) ==
    LET ids == CollectMethodIds(es)
    IN  [mid \in ids |-> Cardinality({ o \in ids : o < mid })]

\* Mutant: the ids are taken to be 1..N, so vertex idx is id idx + 1
VertexToIdOf_dense(idv) ==
    [idx \in { idv[mid] : mid \in DOMAIN idv } |-> idx + 1]

\* graph.py 35: the dict comprehension that inverts _id_to_vertex
VertexToIdOf(idv) ==
    [idx \in { idv[mid] : mid \in DOMAIN idv } |->
        CHOOSE mid \in DOMAIN idv : idv[mid] = idx]

\* graph.py 38-41
VertexEdgesOf(es, idv) ==
    [i \in DOMAIN es |-> <<idv[es[i][1]], idv[es[i][2]]>>]

NoGraph == [none |-> TRUE, n |-> 0, edges |-> <<>>, method_id |-> <<>>]

\* graph.py 43-50: ig.Graph(n, edges, directed=True) and the vertex attribute
GraphOf(es) ==
    LET idv == IdToVertexOf(es)
        vid == VertexToIdOf(idv)
        n == Cardinality(CollectMethodIds(es))
    IN  [none |-> FALSE,
         n |-> n,
         edges |-> VertexEdgesOf(es, idv),
         method_id |-> [k \in 1..n |-> vid[k - 1]]]

\* The three fields of the object after load() has run on edge list es
LoadedFields(es) ==
    [graph |-> GraphOf(es),
     id_to_vertex |-> IdToVertexOf(es),
     vertex_to_id |-> VertexToIdOf(IdToVertexOf(es))]

CurrentFields ==
    [graph |-> _graph,
     id_to_vertex |-> _id_to_vertex,
     vertex_to_id |-> _vertex_to_id]

\* graph.py 52-57: the graph property loads when _graph is None
GraphProperty == IF _graph.none THEN LoadedFields(edges) ELSE CurrentFields

(***************************************************************************)
(* igraph primitives used by graph.py                                      *)
(***************************************************************************)
EdgeEnds(e, mode) == IF mode = "out" THEN e ELSE <<e[2], e[1]>>

EdgeCount(g, v, w, mode) ==
    Cardinality({ i \in DOMAIN g.edges : EdgeEnds(g.edges[i], mode) = <<v, w>> })

RECURSIVE NeighborsFrom(_, _, _, _)
NeighborsFrom(g, v, w, mode) ==
    IF w >= g.n THEN <<>>
    ELSE Repeat(w, EdgeCount(g, v, w, mode)) \o NeighborsFrom(g, v, w + 1, mode)

\* Graph.neighbors(v, mode): one entry per incident edge, ascending by vertex
neighbors(g, v, mode) == NeighborsFrom(g, v, 0, mode)

\* the entries of nb that are not in seen, each once, in order
RECURSIVE Fresh(_, _)
Fresh(nb, seen) ==
    IF nb = <<>> THEN <<>>
    ELSE IF Head(nb) \in seen THEN Fresh(Tail(nb), seen)
         ELSE <<Head(nb)>> \o Fresh(Tail(nb), seen \cup {Head(nb)})

RECURSIVE BfsOrder(_, _, _, _)
BfsOrder(g, mode, queue, order) ==
    IF queue = <<>> THEN order
    ELSE LET new == Fresh(neighbors(g, Head(queue), mode), Range(order))
         IN  BfsOrder(g, mode, Tail(queue) \o new, order \o new)

\* Mutant: only the start vertex and its direct neighbours
subcomponent_one_hop(g, v, mode) == <<v>> \o Fresh(neighbors(g, v, mode), {v})

\* Graph.subcomponent(v, mode): breadth-first list of the vertices reachable
\* from v, v first
subcomponent(g, v, mode) == BfsOrder(g, mode, <<v>>, <<v>>)

RECURSIVE SetParents(_, _, _)
SetParents(new, act, parent) ==
    IF new = <<>> THEN parent
    ELSE SetParents(Tail(new), act, parent @@ (Head(new) :> act))

\* breadth-first search that records for each vertex the vertex it was first
\* reached from; it stops as soon as the target has a parent
RECURSIVE BfsParents(_, _, _, _, _)
BfsParents(g, mode, queue, parent, to) ==
    IF queue = <<>> \/ to \in DOMAIN parent THEN parent
    ELSE LET act == Head(queue)
             new == Fresh(neighbors(g, act, mode), DOMAIN parent)
         IN  BfsParents(g, mode, Tail(queue) \o new,
                        SetParents(new, act, parent), to)

RECURSIVE PathBack(_, _, _)
PathBack(parent, from, v) ==
    IF v = from THEN <<v>>
    ELSE Append(PathBack(parent, from, parent[v]), v)

\* Mutant: the first path a depth-first search finds instead of a shortest one
RECURSIVE DfsPath(_, _, _, _)
RECURSIVE DfsTry(_, _, _, _, _)
DfsPath(g, mode, path, to) ==
    IF Last(path) = to THEN path
    ELSE DfsTry(g, mode, neighbors(g, Last(path), mode), path, to)

DfsTry(g, mode, nbs, path, to) ==
    IF nbs = <<>> THEN <<>>
    ELSE IF Head(nbs) \in Range(path) THEN DfsTry(g, mode, Tail(nbs), path, to)
    ELSE LET p == DfsPath(g, mode, Append(path, Head(nbs)), to)
         IN  IF p # <<>> THEN p ELSE DfsTry(g, mode, Tail(nbs), path, to)

get_shortest_paths_dfs(g, from, to, mode) == << DfsPath(g, mode, <<from>>, to) >>

\* Graph.get_shortest_paths(v, to, mode) with one target: a list with one
\* vertex path, which is empty when to is not reachable
get_shortest_paths(g, from, to, mode) ==
    LET parent == BfsParents(g, mode, <<from>>, (from :> from), to)
    IN  IF to \in DOMAIN parent THEN << PathBack(parent, from, to) >>
        ELSE << <<>> >>

(***************************************************************************)
(* CallGraph queries.  Each returns the value handed back to the caller    *)
(* together with the fields of the object after the call.                  *)
(***************************************************************************)
NoRet ==
    [op |-> "none", from_id |-> 0, to_id |-> 0, max_depth |-> 0,
     raised |-> FALSE, none |-> FALSE, path |-> <<>>, paths |-> <<>>,
     ids |-> {}]

\* [self._vertex_to_id[v] for v in vs]
MapIds(vid, vs) == [i \in DOMAIN vs |-> vid[vs[i]]]
\* a dict lookup of a missing key raises KeyError
KeyError(d, ks) == \E k \in ks : k \notin DOMAIN d

\* Mutant: the shortest path is searched along in-edges
find_path_in(from_id, to_id) ==
    IF from_id \notin DOMAIN _id_to_vertex \/ to_id \notin DOMAIN _id_to_vertex
    THEN [fields |-> CurrentFields, raised |-> FALSE, none |-> TRUE,
          path |-> <<>>]
    ELSE LET f == GraphProperty
             paths == get_shortest_paths(f.graph, _id_to_vertex[from_id],
                                         _id_to_vertex[to_id], "in")
         IN  IF paths = <<>> \/ paths[1] = <<>>
             THEN [fields |-> f, raised |-> FALSE, none |-> TRUE,
                   path |-> <<>>]
             ELSE [fields |-> f, raised |-> FALSE, none |-> FALSE,
                   path |-> MapIds(f.vertex_to_id, paths[1])]

\* Mutant: a path of one vertex is taken for no path
find_path_nontrivial(from_id, to_id) ==
    IF from_id \notin DOMAIN _id_to_vertex \/ to_id \notin DOMAIN _id_to_vertex
    THEN [fields |-> CurrentFields, raised |-> FALSE, none |-> TRUE,
          path |-> <<>>]
    ELSE LET f == GraphProperty
             paths == get_shortest_paths(f.graph, _id_to_vertex[from_id],
                                         _id_to_vertex[to_id], "out")
         IN  IF paths = <<>> \/ Len(paths[1]) < 2
             THEN [fields |-> f, raised |-> FALSE, none |-> TRUE,
                   path |-> <<>>]
             ELSE [fields |-> f, raised |-> FALSE, none |-> FALSE,
                   path |-> MapIds(f.vertex_to_id, paths[1])]

\* graph.py 59-71
find_path(from_id, to_id) ==
    IF from_id \notin DOMAIN _id_to_vertex \/ to_id \notin DOMAIN _id_to_vertex
    THEN [fields |-> CurrentFields, raised |-> FALSE, none |-> TRUE,
          path |-> <<>>]
    ELSE LET from_v == _id_to_vertex[from_id]
             to_v == _id_to_vertex[to_id]
             f == GraphProperty
             paths == get_shortest_paths(f.graph, from_v, to_v, "out")
         IN  IF paths = <<>> \/ paths[1] = <<>>
             THEN [fields |-> f, raised |-> FALSE, none |-> TRUE,
                   path |-> <<>>]
             ELSE IF KeyError(f.vertex_to_id, Range(paths[1]))
             THEN [fields |-> f, raised |-> TRUE, none |-> FALSE,
                   path |-> <<>>]
             ELSE [fields |-> f, raised |-> FALSE, none |-> FALSE,
                   path |-> MapIds(f.vertex_to_id, paths[1])]

\* Mutant: one visited set shared by all branches instead of one per path
RECURSIVE GlobalVisit(_, _, _, _, _, _)
RECURSIVE GlobalLoop(_, _, _, _, _, _)
GlobalVisit(g, current, target, path, visited, depth) ==
    IF depth < 0 THEN [paths |-> <<>>, visited |-> visited]
    ELSE LET path2 == path \o <<current>>
         IN  IF current = target THEN [paths |-> <<path2>>, visited |-> visited]
             ELSE IF current \in visited
             THEN [paths |-> <<>>, visited |-> visited]
             ELSE GlobalLoop(g, neighbors(g, current, "out"), target, path2,
                             visited \cup {current}, depth)

GlobalLoop(g, nbs, target, path, visited, depth) ==
    IF nbs = <<>> THEN [paths |-> <<>>, visited |-> visited]
    ELSE LET a == GlobalVisit(g, Head(nbs), target, path, visited, depth - 1)
             b == GlobalLoop(g, Tail(nbs), target, path, a.visited, depth)
         IN  [paths |-> a.paths \o b.paths, visited |-> b.visited]

_find_paths_recursive_global(g, current, target, path, visited, depth) ==
    GlobalVisit(g, current, target, path, visited, depth).paths

\* Mutant: the depth test lets one more hop through
RECURSIVE _find_paths_recursive_deeper(_, _, _, _, _, _)
RECURSIVE DeeperLoop(_, _, _, _, _, _)
_find_paths_recursive_deeper(g, current, target, path, visited, depth) ==
    IF depth < 0 - 1 THEN <<>>
    ELSE LET path2 == path \o <<current>>
         IN  IF current = target THEN <<path2>>
             ELSE IF current \in visited THEN <<>>
             ELSE DeeperLoop(g, neighbors(g, current, "out"), target,
                             path2, visited \cup {current}, depth)

DeeperLoop(g, nbs, target, path, visited, depth) ==
    IF nbs = <<>> THEN <<>>
    ELSE _find_paths_recursive_deeper(g, Head(nbs), target, path, visited,
                                      depth - 1)
         \o DeeperLoop(g, Tail(nbs), target, path, visited, depth)

\* Mutant: the search goes on after the arrival at the target (no return)
RECURSIVE _find_paths_recursive_through(_, _, _, _, _, _)
RECURSIVE ThroughLoop(_, _, _, _, _, _)
_find_paths_recursive_through(g, current, target, path, visited, depth) ==
    IF depth < 0 THEN <<>>
    ELSE LET path2 == path \o <<current>>
             found == IF current = target THEN <<path2>> ELSE <<>>
         IN  IF current \in visited THEN found
             ELSE found \o ThroughLoop(g, neighbors(g, current, "out"), target,
                                       path2, visited \cup {current}, depth)

ThroughLoop(g, nbs, target, path, visited, depth) ==
    IF nbs = <<>> THEN <<>>
    ELSE _find_paths_recursive_through(g, Head(nbs), target, path, visited,
                                       depth - 1)
         \o ThroughLoop(g, Tail(nbs), target, path, visited, depth)

\* graph.py 87-106; the value is the list of paths appended to results, in
\* the order they are appended
RECURSIVE _find_paths_recursive(_, _, _, _, _, _)
RECURSIVE FindPathsLoop(_, _, _, _, _, _)
_find_paths_recursive(g, current, target, path, visited, depth) ==
    IF depth < 0 THEN <<>>
    ELSE LET path2 == path \o <<current>>
         IN  IF current = target THEN <<path2>>
             ELSE IF current \in visited THEN <<>>
             ELSE FindPathsLoop(g, neighbors(g, current, "out"), target,
                                path2, visited \cup {current}, depth)

\* graph.py 105-106: the for loop over the out-neighbours
FindPathsLoop(g, nbs, target, path, visited, depth) ==
    IF nbs = <<>> THEN <<>>
    ELSE _find_paths_recursive(g, Head(nbs), target, path, visited, depth - 1)
         \o FindPathsLoop(g, Tail(nbs), target, path, visited, depth)

\* graph.py 73-85
find_all_paths(from_id, to_id, max_depth) ==
    IF from_id \notin DOMAIN _id_to_vertex \/ to_id \notin DOMAIN _id_to_vertex
    THEN [fields |-> CurrentFields, raised |-> FALSE, paths |-> <<>>]
    ELSE LET from_v == _id_to_vertex[from_id]
             to_v == _id_to_vertex[to_id]
             f == GraphProperty
             all_paths == _find_paths_recursive(f.graph, from_v, to_v, <<>>,
                                                {}, max_depth)
         IN  IF \E i \in DOMAIN all_paths :
                    KeyError(f.vertex_to_id, Range(all_paths[i]))
             THEN [fields |-> f, raised |-> TRUE, paths |-> <<>>]
             ELSE [fields |-> f, raised |-> FALSE,
                   paths |-> [i \in DOMAIN all_paths |->
                                 MapIds(f.vertex_to_id, all_paths[i])]]

\* Mutant: an absent id falls back to vertex 0
get_reachable_default(from_id) ==
    LET from_v == IF from_id \in DOMAIN _id_to_vertex
                  THEN _id_to_vertex[from_id] ELSE 0
        f == GraphProperty
        reachable_v == subcomponent(f.graph, from_v, "out")
    IN  IF KeyError(f.vertex_to_id, Range(reachable_v))
        THEN [fields |-> f, raised |-> TRUE, ids |-> {}]
        ELSE [fields |-> f, raised |-> FALSE,
              ids |-> { f.vertex_to_id[v] : v \in Range(reachable_v) }]

\* Mutant: a query for an unknown id registers the id as a new vertex
get_reachable_registers(from_id) ==
    IF from_id \notin DOMAIN _id_to_vertex
    THEN [fields |-> [CurrentFields EXCEPT
                         !.id_to_vertex = _id_to_vertex @@
                             (from_id :> Cardinality(DOMAIN _id_to_vertex))],
          raised |-> FALSE, ids |-> {}]
    ELSE LET from_v == _id_to_vertex[from_id]
             f == GraphProperty
             reachable_v == subcomponent(f.graph, from_v, "out")
         IN  IF KeyError(f.vertex_to_id, Range(reachable_v))
             THEN [fields |-> f, raised |-> TRUE, ids |-> {}]
             ELSE [fields |-> f, raised |-> FALSE,
                   ids |-> { f.vertex_to_id[v] : v \in Range(reachable_v) }]

\* graph.py 108-116
get_reachable(from_id) ==
    IF from_id \notin DOMAIN _id_to_vertex
    THEN [fields |-> CurrentFields, raised |-> FALSE, ids |-> {}]
    ELSE LET from_v == _id_to_vertex[from_id]
             f == GraphProperty
             reachable_v == subcomponent(f.graph, from_v, "out")
         IN  IF KeyError(f.vertex_to_id, Range(reachable_v))
             THEN [fields |-> f, raised |-> TRUE, ids |-> {}]
             ELSE [fields |-> f, raised |-> FALSE,
                   ids |-> { f.vertex_to_id[v] : v \in Range(reachable_v) }]

\* Mutant: the reverse query follows out-edges like the forward one
get_reverse_reachable_out(to_id) ==
    IF to_id \notin DOMAIN _id_to_vertex
    THEN [fields |-> CurrentFields, raised |-> FALSE, ids |-> {}]
    ELSE LET f == GraphProperty
             reachable_v == subcomponent(f.graph, _id_to_vertex[to_id], "out")
         IN  [fields |-> f, raised |-> FALSE,
              ids |-> { f.vertex_to_id[v] : v \in Range(reachable_v) }]

\* graph.py 118-126
get_reverse_reachable(to_id) ==
    IF to_id \notin DOMAIN _id_to_vertex
    THEN [fields |-> CurrentFields, raised |-> FALSE, ids |-> {}]
    ELSE LET to_v == _id_to_vertex[to_id]
             f == GraphProperty
             reachable_v == subcomponent(f.graph, to_v, "in")
         IN  IF KeyError(f.vertex_to_id, Range(reachable_v))
             THEN [fields |-> f, raised |-> TRUE, ids |-> {}]
             ELSE [fields |-> f, raised |-> FALSE,
                   ids |-> { f.vertex_to_id[v] : v \in Range(reachable_v) }]

\* The arguments a caller passes: every id up to the largest of the calls
\* table and one beyond it, and every depth from -1 to the length of the
\* longest cycle-free path the table allows.
MaxOf(S) == IF S = {} THEN 0 ELSE CHOOSE x \in S : \A y \in S : y <= x
QueryIds == 1..(MaxOf(CollectMethodIds(edges)) + 1)
QueryDepths == (0 - 1)..(Cardinality(CollectMethodIds(edges)) - 1)

(***************************************************************************)
(* Actions of the graph half                                               *)
(***************************************************************************)
SetFields(f) ==
    /\ _graph' = f.graph
    /\ _id_to_vertex' = f.id_to_vertex
    /\ _vertex_to_id' = f.vertex_to_id

\* The caller is sequential: a call starts when no result is pending
Idle == ret.op = "none"

\* the caller takes the returned value; the object keeps its fields
Return ==
    /\ ret.op # "none"
    /\ ret' = NoRet
    /\ UNCHANGED <<edges, _graph, _id_to_vertex, _vertex_to_id, compatVars,
                 renderVars, threadVars, walkVars>>

\* graph.py 22-50
Load ==
    /\ Idle
    /\ SetFields(LoadedFields(edges))
    /\ ret' = [NoRet EXCEPT !.op = "load"]
    /\ UNCHANGED <<edges, compatVars, renderVars, threadVars, walkVars>>

FindPath ==
    /\ Idle
    /\ \E from_id \in QueryIds, to_id \in QueryIds :
        LET r == find_path(from_id, to_id)
        IN  /\ SetFields(r.fields)
            /\ ret' = [NoRet EXCEPT !.op = "find_path", !.from_id = from_id,
                                    !.to_id = to_id, !.raised = r.raised,
                                    !.none = r.none, !.path = r.path]
            /\ UNCHANGED <<edges, compatVars, renderVars, threadVars, walkVars>>

FindAllPaths ==
    /\ Idle
    /\ \E from_id \in QueryIds, to_id \in QueryIds, max_depth \in QueryDepths :
        LET r == find_all_paths(from_id, to_id, max_depth)
        IN  /\ SetFields(r.fields)
            /\ ret' = [NoRet EXCEPT !.op = "find_all_paths",
                                    !.from_id = from_id, !.to_id = to_id,
                                    !.max_depth = max_depth,
                                    !.raised = r.raised, !.paths = r.paths]
            /\ UNCHANGED <<edges, compatVars, renderVars, threadVars, walkVars>>

GetReachable ==
    /\ Idle
    /\ \E from_id \in QueryIds :
        LET r == get_reachable(from_id)
        IN  /\ SetFields(r.fields)
            /\ ret' = [NoRet EXCEPT !.op = "get_reachable",
                                    !.from_id = from_id,
                                    !.raised = r.raised, !.ids = r.ids]
            /\ UNCHANGED <<edges, compatVars, renderVars, threadVars, walkVars>>

GetReverseReachable ==
    /\ Idle
    /\ \E to_id \in QueryIds :
        LET r == get_reverse_reachable(to_id)
        IN  /\ SetFields(r.fields)
            /\ ret' = [NoRet EXCEPT !.op = "get_reverse_reachable",
                                    !.to_id = to_id,
                                    !.raised = r.raised, !.ids = r.ids]
            /\ UNCHANGED <<edges, compatVars, renderVars, threadVars, walkVars>>

(***************************************************************************)
(* db.py: the two grouping queries.  The order in which SQLite visits the  *)
(* rows of a table is not fixed by the query: the rows are visited in the  *)
(* order of the table and the tables are taken in every row order.         *)
(***************************************************************************)
\* GROUP_CONCAT(mod_name): the values joined by commas
RECURSIVE GroupConcat(_)
GroupConcat(names) ==
    IF names = <<>> THEN <<>>
    ELSE IF Len(names) = 1 THEN names[1]
    ELSE names[1] \o <<",">> \o GroupConcat(Tail(names))

\* str.split(','): a cut at every comma
RECURSIVE SplitFrom(_, _)
SplitFrom(str, cur) ==
    IF str = <<>> THEN <<cur>>
    ELSE IF Head(str) = "," THEN <<cur>> \o SplitFrom(Tail(str), <<>>)
    ELSE SplitFrom(Tail(str), Append(cur, Head(str)))

split(str) == SplitFrom(str, <<>>)

PatchKey(r) == <<r.target_type, r.target_method>>
XmlKey(r) == <<r.file_name, r.xpath>>

\* the grouping key of a row of table kind ("patch" or "xml")
KeyOf(kind, r) == IF kind = "patch" THEN PatchKey(r) ELSE XmlKey(r)

\* the rows of one group, in visiting order
RECURSIVE GroupRows(_, _, _)
GroupRows(rows, kind, k) ==
    IF rows = <<>> THEN <<>>
    ELSE IF KeyOf(kind, Head(rows)) = k
         THEN <<Head(rows)>> \o GroupRows(Tail(rows), kind, k)
         ELSE GroupRows(Tail(rows), kind, k)

\* the keys of the groups, in order of first visit
RECURSIVE GroupKeys(_, _, _)
GroupKeys(rows, kind, seen) ==
    IF rows = <<>> THEN <<>>
    ELSE IF KeyOf(kind, Head(rows)) \in seen THEN GroupKeys(Tail(rows), kind, seen)
    ELSE <<KeyOf(kind, Head(rows))>>
         \o GroupKeys(Tail(rows), kind, seen \cup {KeyOf(kind, Head(rows))})

ModsOf(group) == [i \in DOMAIN group |-> group[i].mod_name]

\* GROUP BY key HAVING COUNT(DISTINCT mod_name) > 1, one output row
\* [key, mods, count] per group kept
RECURSIVE HavingSeveralMods(_, _, _)
HavingSeveralMods(rows, kind, keys) ==
    IF keys = <<>> THEN <<>>
    ELSE LET group == GroupRows(rows, kind, Head(keys))
             rest == HavingSeveralMods(rows, kind, Tail(keys))
         IN  IF Cardinality(Range(ModsOf(group))) > 1
             THEN << [key |-> Head(keys),
                      mods |-> GroupConcat(ModsOf(group)),
                      count |-> Len(group)] >> \o rest
             ELSE rest

\* db.py 131-142
find_patch_conflicts ==
    HavingSeveralMods(harmony_patches, "patch",
                      GroupKeys(harmony_patches, "patch", {}))

\* db.py 144-155
find_xml_conflicts ==
    HavingSeveralMods(xml_changes, "xml", GroupKeys(xml_changes, "xml", {}))

(***************************************************************************)
(* compat.py: check_compatibility                                          *)
(***************************************************************************)
\* [m for m in involved_mods if m in mod_names]
RECURSIVE FilterRequested(_, _)
FilterRequested(involved_mods, mod_names) ==
    IF involved_mods = <<>> THEN <<>>
    ELSE IF Head(involved_mods) \in Range(mod_names)
         THEN <<Head(involved_mods)>>
              \o FilterRequested(Tail(involved_mods), mod_names)
         ELSE FilterRequested(Tail(involved_mods), mod_names)

\* compat.py 105: f"{target_type}.{target_method}"
PatchTarget(k) == k[1] \o <<".">> \o k[2]
\* compat.py 120: f"{file_name}:{xpath}"
XmlTarget(k) == k[1] \o <<":">> \o k[2]

\* Mutant: the test compares the first two names instead of counting
RECURSIVE PatchConflicts_first_two(_, _)
PatchConflicts_first_two(found, mod_names) ==
    IF found = <<>> THEN <<>>
    ELSE LET conflict == Head(found)
             involved_mods == FilterRequested(split(conflict.mods), mod_names)
             rest == PatchConflicts_first_two(Tail(found), mod_names)
         IN  IF Len(involved_mods) > 1 /\ involved_mods[1] # involved_mods[2]
             THEN << [type |-> "direct_patch",
                      severity |-> "high",
                      target |-> PatchTarget(conflict.key),
                      mods_involved |-> involved_mods,
                      details |-> <<>>,
                      resolution |-> "Both mods patch the same method. Test thoroughly for conflicts."] >>
                  \o rest
             ELSE rest

\* compat.py 97-109: the loop over the patch conflicts
RECURSIVE PatchConflicts(_, _)
PatchConflicts(found, mod_names) ==
    IF found = <<>> THEN <<>>
    ELSE LET conflict == Head(found)
             involved_mods == FilterRequested(split(conflict.mods), mod_names)
             rest == PatchConflicts(Tail(found), mod_names)
         IN  IF Len(involved_mods) > 1
             THEN << [type |-> "direct_patch",
                      severity |-> "high",
                      target |-> PatchTarget(conflict.key),
                      mods_involved |-> involved_mods,
                      details |-> <<>>,
                      resolution |-> "Both mods patch the same method. Test thoroughly for conflicts."] >>
                  \o rest
             ELSE rest

\* Mutant: the XML branch keeps the severity of the patch branch
RECURSIVE XmlConflicts_high(_, _)
XmlConflicts_high(found, mod_names) ==
    IF found = <<>> THEN <<>>
    ELSE LET conflict == Head(found)
             involved_mods == FilterRequested(split(conflict.mods), mod_names)
             rest == XmlConflicts_high(Tail(found), mod_names)
         IN  IF Len(involved_mods) > 1
             THEN << [type |-> "xml_collision",
                      severity |-> "high",
                      target |-> XmlTarget(conflict.key),
                      mods_involved |-> involved_mods,
                      details |-> <<>>,
                      resolution |-> "Multiple mods modify the same XML node. Last-loaded wins."] >>
                  \o rest
             ELSE rest

\* compat.py 113-124: the loop over the XML collisions
RECURSIVE XmlConflicts(_, _)
XmlConflicts(found, mod_names) ==
    IF found = <<>> THEN <<>>
    ELSE LET conflict == Head(found)
             involved_mods == FilterRequested(split(conflict.mods), mod_names)
             rest == XmlConflicts(Tail(found), mod_names)
         IN  IF Len(involved_mods) > 1
             THEN << [type |-> "xml_collision",
                      severity |-> "medium",
                      target |-> XmlTarget(conflict.key),
                      mods_involved |-> involved_mods,
                      details |-> <<>>,
                      resolution |-> "Multiple mods modify the same XML node. Last-loaded wins."] >>
                  \o rest
             ELSE rest

\* compat.py 81-134
check_compatibility(mod_names) ==
    [called |-> TRUE,
     mods |-> mod_names,
     conflicts |-> PatchConflicts(find_patch_conflicts, mod_names)
                   \o XmlConflicts(find_xml_conflicts, mod_names),
     load_order_suggestions |-> <<>>]

\* compat.py 38-40
is_compatible(r) == Len(r.conflicts) = 0

\* sum(1 for c in conflicts if c.severity == severity)
RECURSIVE CountSeverity(_, _)
CountSeverity(conflicts, severity) ==
    IF conflicts = <<>> THEN 0
    ELSE (IF Head(conflicts).severity = severity THEN 1 ELSE 0)
         + CountSeverity(Tail(conflicts), severity)

\* Mutant: the caveat test is the plain compatibility test
is_compatible_with_caveats_any(r) == Len(r.conflicts) = 0

\* compat.py 42-45
is_compatible_with_caveats(r) ==
    LET high_severity == CountSeverity(r.conflicts, "high")
    IN  high_severity = 0

\* Mutant: the medium count repeats the test of the high count
to_dict_high_twice(r) ==
    [query |-> "compat",
     mods |-> r.mods,
     conflicts |-> r.conflicts,
     load_order_suggestions |-> r.load_order_suggestions,
     summary |->
        [total_conflicts |-> Len(r.conflicts),
         high_severity |-> CountSeverity(r.conflicts, "high"),
         medium_severity |-> CountSeverity(r.conflicts, "high"),
         low_severity |-> CountSeverity(r.conflicts, "low"),
         compatible |-> is_compatible(r),
         compatible_with_caveats |-> is_compatible_with_caveats(r)]]

\* compat.py 47-78
to_dict(r) ==
    [query |-> "compat",
     mods |-> r.mods,
     conflicts |-> [i \in DOMAIN r.conflicts |->
                       [type |-> r.conflicts[i].type,
                        severity |-> r.conflicts[i].severity,
                        target |-> r.conflicts[i].target,
                        mods_involved |-> r.conflicts[i].mods_involved,
                        details |-> r.conflicts[i].details,
                        resolution |-> r.conflicts[i].resolution]],
     load_order_suggestions |-> r.load_order_suggestions,
     summary |->
        [total_conflicts |-> Len(r.conflicts),
         high_severity |-> CountSeverity(r.conflicts, "high"),
         medium_severity |-> CountSeverity(r.conflicts, "medium"),
         low_severity |-> CountSeverity(r.conflicts, "low"),
         compatible |-> is_compatible(r),
         compatible_with_caveats |-> is_compatible_with_caveats(r)]]

NoReport ==
    [called |-> FALSE, mods |-> <<>>, conflicts |-> <<>>,
     load_order_suggestions |-> <<>>]

CheckCompatibility ==
    /\ ~report.called
    /\ \E mod_names \in ModLists : report' = check_compatibility(mod_names)
    /\ UNCHANGED <<graphVars, harmony_patches, xml_changes, renderVars,
                 threadVars, walkVars>>

\* the caller takes the report
ReturnReport ==
    /\ report.called
    /\ report' = NoReport
    /\ UNCHANGED <<graphVars, harmony_patches, xml_changes, renderVars,
                 threadVars, walkVars>>

(***************************************************************************)
(* graph.py: build_path_result over db.get_method_info                     *)
(***************************************************************************)
\* the longest path handed to build_path_result
MaxRenderLen == 3

\* A nullable column is the empty sequence (NULL) or a one-element sequence
LineNumbers == { 12 }
InfoRows ==
    [type_name : TypeNames, signature : MethodNames,
     file_path : { <<>>, << <<"f">> >> }, line_number : LineNumbers]

\* the methods tables: the ids 1..maxId that have a row (joined with its
\* type), each with its row
MethodTables(maxId) ==
    UNION { [ids -> InfoRows] : ids \in SUBSET (1..maxId) }

\* str(n) of a natural number
Digits == <<"0", "1", "2", "3", "4", "5", "6", "7", "8", "9">>
RECURSIVE str(_)
str(n) ==
    IF n < 10 THEN <<Digits[n + 1]>>
    ELSE Append(str(n \div 10), Digits[(n % 10) + 1])

\* db.py 97-106: the row of the method, or None (the empty sequence)
get_method_info(method_id) ==
    IF method_id \in DOMAIN methods THEN <<methods[method_id]>> ELSE <<>>

\* graph.py 137: f"{info['type_name']}.{info['signature']}"
ChainEntry(info) == info.type_name \o <<".">> \o info.signature

\* graph.py 138-141
FilesEntry(info) ==
    IF info.file_path # <<>> /\ info.file_path[1] # <<>>
    THEN info.file_path[1] \o <<":">> \o str(info.line_number)
    ELSE <<"u", "n", "k", "n", "o", "w", "n">>

\* graph.py 134-141: the loop over the path
RECURSIVE RenderLoop(_)
RenderLoop(path) ==
    IF path = <<>> THEN [chain |-> <<>>, files |-> <<>>]
    ELSE LET info == get_method_info(Head(path))
             rest == RenderLoop(Tail(path))
         IN  IF info # <<>>
             THEN [chain |-> <<ChainEntry(info[1])>> \o rest.chain,
                   files |-> <<FilesEntry(info[1])>> \o rest.files]
             ELSE rest

\* graph.py 129-147
build_path_result(path) ==
    [called |-> TRUE,
     path |-> path,
     depth |-> Len(path),
     chain |-> RenderLoop(path).chain,
     files |-> RenderLoop(path).files]

NoPathResult ==
    [called |-> FALSE, path |-> <<>>, depth |-> 0, chain |-> <<>>,
     files |-> <<>>]

BuildPathResult ==
    /\ ~path_result.called
    /\ \E path \in SeqsUpTo(1..MaxId, MaxRenderLen) :
           path_result' = build_path_result(path)
    /\ UNCHANGED <<graphVars, compatVars, methods, threadVars, walkVars>>

\* the caller takes the result
ReturnPathResult ==
    /\ path_result.called
    /\ path_result' = NoPathResult
    /\ UNCHANGED <<graphVars, compatVars, methods, threadVars, walkVars>>

(***************************************************************************)
(* Threads that call the queries of one CallGraph.  A call reads the       *)
(* shared fields in three steps: _id_to_vertex (the guard and the two      *)
(* lookups), then self.graph for the igraph call, then _vertex_to_id for   *)
(* the translation of the result; other threads run between the steps.     *)
(***************************************************************************)
\* calls tables of the threaded specification
MaxThreadId == 2
MaxThreadEdges == 2

Threads == { "t1", "t2" }

\* graph.py 73: max_depth: int = 10
DefaultMaxDepth == 10

IdleThread ==
    [pc |-> "idle", op |-> "none", from_id |-> 0, to_id |-> 0,
     none |-> FALSE, path |-> <<>>, paths |-> <<>>, ids |-> {}]
NoThreads == [t \in Threads |-> IdleThread]

\* the local variables of one call
NoFrame ==
    [from_v |-> 0, to_v |-> 0, paths |-> <<>>, all_paths |-> <<>>,
     reachable_v |-> <<>>]
NoFrames == [t \in Threads |-> NoFrame]

\* Mutant: the locals are kept in one place shared by all calls
FrameOf_shared(t) == "t1"

\* every call has its own local variables
FrameOf(t) == t

\* the guard and the lookups of a query (graph.py 61-65, 75-79, 110-113,
\* 120-123): needed are the ids looked up
BeginCall(t, op, from_id, to_id, needed) ==
    IF \E m \in needed : m \notin DOMAIN _id_to_vertex
    THEN /\ threads' = [threads EXCEPT ![t] =
                [IdleThread EXCEPT !.pc = "done", !.op = op,
                                   !.from_id = from_id, !.to_id = to_id,
                                   !.none = (op = "find_path")]]
         /\ frames' = frames
    ELSE /\ threads' = [threads EXCEPT ![t] =
                [IdleThread EXCEPT !.pc = "indexed", !.op = op,
                                   !.from_id = from_id, !.to_id = to_id]]
         /\ frames' = [frames EXCEPT ![FrameOf(t)] =
                [NoFrame EXCEPT
                    !.from_v = IF from_id \in needed
                               THEN _id_to_vertex[from_id] ELSE 0,
                    !.to_v = IF to_id \in needed
                             THEN _id_to_vertex[to_id] ELSE 0]]

ThreadFindPath(t) ==
    /\ threads[t].pc = "idle"
    /\ \E from_id \in QueryIds, to_id \in QueryIds :
           BeginCall(t, "find_path", from_id, to_id, {from_id, to_id})
    /\ UNCHANGED <<graphVars, compatVars, renderVars, walkVars>>

ThreadFindAllPaths(t) ==
    /\ threads[t].pc = "idle"
    /\ \E from_id \in QueryIds, to_id \in QueryIds :
           BeginCall(t, "find_all_paths", from_id, to_id, {from_id, to_id})
    /\ UNCHANGED <<graphVars, compatVars, renderVars, walkVars>>

ThreadGetReachable(t) ==
    /\ threads[t].pc = "idle"
    /\ \E from_id \in QueryIds :
           BeginCall(t, "get_reachable", from_id, 0, {from_id})
    /\ UNCHANGED <<graphVars, compatVars, renderVars, walkVars>>

ThreadGetReverseReachable(t) ==
    /\ threads[t].pc = "idle"
    /\ \E to_id \in QueryIds :
           BeginCall(t, "get_reverse_reachable", 0, to_id, {to_id})
    /\ UNCHANGED <<graphVars, compatVars, renderVars, walkVars>>

\* graph.py 67, 83, 114, 124: self.graph and the igraph traversal
ThreadSearch(t) ==
    /\ threads[t].pc = "indexed"
    /\ LET fr == frames[FrameOf(t)]
           f == GraphProperty
           op == threads[t].op
       IN  /\ SetFields(f)
           /\ frames' = [frames EXCEPT ![FrameOf(t)] =
                 CASE op = "find_path" ->
                        [fr EXCEPT !.paths =
                            get_shortest_paths(f.graph, fr.from_v, fr.to_v, "out")]
                   [] op = "find_all_paths" ->
                        [fr EXCEPT !.all_paths =
                            _find_paths_recursive(f.graph, fr.from_v, fr.to_v,
                                                  <<>>, {}, DefaultMaxDepth)]
                   [] op = "get_reachable" ->
                        [fr EXCEPT !.reachable_v =
                            subcomponent(f.graph, fr.from_v, "out")]
                   [] OTHER ->
                        [fr EXCEPT !.reachable_v =
                            subcomponent(f.graph, fr.to_v, "in")]]
    /\ threads' = [threads EXCEPT ![t].pc = "searched"]
    /\ UNCHANGED <<edges, ret, compatVars, renderVars, walkVars>>

\* graph.py 68-71, 85, 116, 126: the result in method ids
ThreadTranslate(t) ==
    /\ threads[t].pc = "searched"
    /\ LET fr == frames[FrameOf(t)]
           op == threads[t].op
       IN  threads' = [threads EXCEPT ![t] =
             CASE op = "find_path" ->
                    IF fr.paths = <<>> \/ fr.paths[1] = <<>>
                    THEN [@ EXCEPT !.pc = "done", !.none = TRUE]
                    ELSE [@ EXCEPT !.pc = "done",
                                   !.path = MapIds(_vertex_to_id, fr.paths[1])]
               [] op = "find_all_paths" ->
                    [@ EXCEPT !.pc = "done",
                              !.paths = [i \in DOMAIN fr.all_paths |->
                                  MapIds(_vertex_to_id, fr.all_paths[i])]]
               [] OTHER ->
                    [@ EXCEPT !.pc = "done",
                              !.ids = { _vertex_to_id[v] :
                                        v \in Range(fr.reachable_v) }]]
    /\ UNCHANGED <<graphVars, compatVars, renderVars, frames, walkVars>>

\* the caller takes the returned value; the locals of the call are gone
ThreadReturn(t) ==
    /\ threads[t].pc = "done"
    /\ threads' = [threads EXCEPT ![t] = IdleThread]
    /\ frames' = [frames EXCEPT ![FrameOf(t)] = NoFrame]
    /\ UNCHANGED <<graphVars, compatVars, renderVars, walkVars>>

(***************************************************************************)
(* find_all_paths step by step: every call of _find_paths_recursive is a   *)
(* frame on the call stack with its own parameters; results is the one     *)
(* list all the calls append to.                                           *)
(***************************************************************************)
\* calls tables of the step-by-step specification
MaxWalkId == 3
MaxWalkEdges == 3

\* the depths a caller passes: negative ones, every depth up to the number
\* of vertices, and the default
WalkDepths ==
    ((0 - 2)..Cardinality(CollectMethodIds(edges))) \cup { DefaultMaxDepth }

CallFrame(current, target, path, visited, depth) ==
    [pc |-> "enter", current |-> current, target |-> target, path |-> path,
     visited |-> visited, depth |-> depth, nbs |-> <<>>]

Top == stack[Len(stack)]
Pop == SubSeq(stack, 1, Len(stack) - 1)

\* Mutant: the depth budget is never taken for used up
Exhausted_never(depth) == FALSE

\* graph.py 91: if depth < 0
Exhausted(depth) == depth < 0

\* graph.py 73-83: the guard, the lookups and the first call
WalkCall ==
    /\ Idle
    /\ stack = <<>>
    /\ \E from_id \in QueryIds, to_id \in QueryIds, max_depth \in WalkDepths :
        IF from_id \notin DOMAIN _id_to_vertex \/ to_id \notin DOMAIN _id_to_vertex
        THEN /\ ret' = [NoRet EXCEPT !.op = "find_all_paths",
                                     !.from_id = from_id, !.to_id = to_id,
                                     !.max_depth = max_depth]
             /\ UNCHANGED <<stack, results>>
        ELSE /\ ret' = [NoRet EXCEPT !.op = "running",
                                     !.from_id = from_id, !.to_id = to_id,
                                     !.max_depth = max_depth]
             /\ stack' = << CallFrame(_id_to_vertex[from_id],
                                      _id_to_vertex[to_id], <<>>, {},
                                      max_depth) >>
             /\ results' = <<>>
    /\ UNCHANGED <<edges, _graph, _id_to_vertex, _vertex_to_id, compatVars,
                   renderVars, threadVars>>

\* graph.py 91-105: a call from its entry to the start of its loop
WalkEnter ==
    /\ stack # <<>>
    /\ Top.pc = "enter"
    /\ LET path == Top.path \o <<Top.current>>
       IN  IF Exhausted(Top.depth)
           THEN /\ stack' = Pop
                /\ UNCHANGED <<results, _graph, _id_to_vertex, _vertex_to_id>>
           ELSE IF Top.current = Top.target
           THEN /\ results' = Append(results, path)
                /\ stack' = Pop
                /\ UNCHANGED <<_graph, _id_to_vertex, _vertex_to_id>>
           ELSE IF Top.current \in Top.visited
           THEN /\ stack' = Pop
                /\ UNCHANGED <<results, _graph, _id_to_vertex, _vertex_to_id>>
           ELSE LET f == GraphProperty
                IN  /\ SetFields(f)
                    /\ stack' = [stack EXCEPT ![Len(stack)] =
                          [Top EXCEPT !.pc = "loop", !.path = path,
                                      !.visited = Top.visited \cup {Top.current},
                                      !.nbs = neighbors(f.graph, Top.current,
                                                        "out")]]
                    /\ UNCHANGED results
    /\ UNCHANGED <<edges, ret, compatVars, renderVars, threadVars>>

\* graph.py 105-106: one round of the loop over the neighbours, or its end
WalkLoop ==
    /\ stack # <<>>
    /\ Top.pc = "loop"
    /\ IF Top.nbs = <<>>
       THEN stack' = Pop
       ELSE stack' = Append([stack EXCEPT ![Len(stack)].nbs = Tail(Top.nbs)],
                            CallFrame(Head(Top.nbs), Top.target, Top.path,
                                      Top.visited, Top.depth - 1))
    /\ UNCHANGED <<graphVars, results, compatVars, renderVars, threadVars>>

\* graph.py 85: the paths in method ids
WalkFinish ==
    /\ ret.op = "running"
    /\ stack = <<>>
    /\ ret' = [ret EXCEPT !.op = "find_all_paths",
                          !.paths = [i \in DOMAIN results |->
                                        MapIds(_vertex_to_id, results[i])]]
    /\ results' = <<>>
    /\ UNCHANGED <<edges, _graph, _id_to_vertex, _vertex_to_id, stack,
                   compatVars, renderVars, threadVars>>

\* CallGraph.__init__ (graph.py 16-20) over any calls table
Init ==
    /\ edges \in EdgeListsOver(MaxId, MaxEdges)
    /\ _graph = NoGraph
    /\ _id_to_vertex = <<>>
    /\ _vertex_to_id = <<>>
    /\ ret = NoRet
    /\ harmony_patches = <<>>
    /\ xml_changes = <<>>
    /\ report = NoReport
    /\ methods = <<>>
    /\ path_result = NoPathResult
    /\ threads = NoThreads
    /\ frames = NoFrames
    /\ stack = <<>>
    /\ results = <<>>

Next ==
    \/ Load
    \/ FindPath
    \/ FindAllPaths
    \/ GetReachable
    \/ GetReverseReachable
    \/ Return

Spec == Init /\ [][Next]_vars

\* The find_all_paths client: larger calls tables, find_all_paths only
InitPaths ==
    /\ edges \in EdgeListsOver(MaxPathId, MaxPathEdges)
    /\ _graph = NoGraph
    /\ _id_to_vertex = <<>>
    /\ _vertex_to_id = <<>>
    /\ ret = NoRet
    /\ harmony_patches = <<>>
    /\ xml_changes = <<>>
    /\ report = NoReport
    /\ methods = <<>>
    /\ path_result = NoPathResult
    /\ threads = NoThreads
    /\ frames = NoFrames
    /\ stack = <<>>
    /\ results = <<>>

NextPaths ==
    \/ Load
    \/ FindAllPaths
    \/ Return

SpecPaths == InitPaths /\ [][NextPaths]_vars

\* The find_path client over the larger calls tables, where two shortest
\* paths between the same pair of methods exist
NextOrder ==
    \/ Load
    \/ FindPath
    \/ Return

SpecOrder == InitPaths /\ [][NextOrder]_vars

\* Threads that query one CallGraph on which load() has completed
InitThreads ==
    /\ edges \in EdgeListsOver(MaxThreadId, MaxThreadEdges)
    /\ _graph = LoadedFields(edges).graph
    /\ _id_to_vertex = LoadedFields(edges).id_to_vertex
    /\ _vertex_to_id = LoadedFields(edges).vertex_to_id
    /\ ret = NoRet
    /\ harmony_patches = <<>>
    /\ xml_changes = <<>>
    /\ report = NoReport
    /\ methods = <<>>
    /\ path_result = NoPathResult
    /\ threads = NoThreads
    /\ frames = NoFrames
    /\ stack = <<>>
    /\ results = <<>>

NextThreads ==
    \E t \in Threads :
        \/ ThreadFindPath(t)
        \/ ThreadFindAllPaths(t)
        \/ ThreadGetReachable(t)
        \/ ThreadGetReverseReachable(t)
        \/ ThreadSearch(t)
        \/ ThreadTranslate(t)
        \/ ThreadReturn(t)

SpecThreads == InitThreads /\ [][NextThreads]_vars

\* find_all_paths step by step; the interpreter always takes the next step
InitWalk ==
    /\ edges \in EdgeListsOver(MaxWalkId, MaxWalkEdges)
    /\ _graph = NoGraph
    /\ _id_to_vertex = <<>>
    /\ _vertex_to_id = <<>>
    /\ ret = NoRet
    /\ harmony_patches = <<>>
    /\ xml_changes = <<>>
    /\ report = NoReport
    /\ methods = <<>>
    /\ path_result = NoPathResult
    /\ threads = NoThreads
    /\ frames = NoFrames
    /\ stack = <<>>
    /\ results = <<>>

NextWalk ==
    \/ Load
    \/ WalkCall
    \/ WalkEnter
    \/ WalkLoop
    \/ WalkFinish
    \/ (ret.op \in { "load", "find_all_paths" } /\ Return)

SpecWalk == InitWalk /\ [][NextWalk]_vars /\ WF_vars(NextWalk)

\* The compatibility half: any content of the two mod tables, no call graph
InitCompat ==
    /\ edges = <<>>
    /\ _graph = NoGraph
    /\ _id_to_vertex = <<>>
    /\ _vertex_to_id = <<>>
    /\ ret = NoRet
    /\ harmony_patches \in SeqsUpTo(PatchRows, MaxPatches)
    /\ xml_changes \in SeqsUpTo(XmlRows, MaxXmlChanges)
    /\ report = NoReport
    /\ methods = <<>>
    /\ path_result = NoPathResult
    /\ threads = NoThreads
    /\ frames = NoFrames
    /\ stack = <<>>
    /\ results = <<>>

NextCompat ==
    \/ CheckCompatibility
    \/ ReturnReport

SpecCompat == InitCompat /\ [][NextCompat]_vars

\* The compatibility half over each content of the two mod tables stored
\* in one row order (rows by rank); the other row orders of the same content
\* are its permutations
RankIn(S) ==
    CHOOSE f \in [S -> 1..Cardinality(S)] :
        \A a \in S : \A b \in S : f[a] = f[b] => a = b
PatchRank == RankIn(PatchRows)
XmlRank == RankIn(XmlRows)
InRankOrder(s, rank) ==
    \A i \in 1..(Len(s) - 1) : rank[s[i]] <= rank[s[i + 1]]

InitStored ==
    /\ edges = <<>>
    /\ _graph = NoGraph
    /\ _id_to_vertex = <<>>
    /\ _vertex_to_id = <<>>
    /\ ret = NoRet
    /\ harmony_patches \in { s \in SeqsUpTo(PatchRows, MaxPatches) :
                              InRankOrder(s, PatchRank) }
    /\ xml_changes \in { s \in SeqsUpTo(XmlRows, MaxXmlChanges) :
                          InRankOrder(s, XmlRank) }
    /\ report = NoReport
    /\ methods = <<>>
    /\ path_result = NoPathResult
    /\ threads = NoThreads
    /\ frames = NoFrames
    /\ stack = <<>>
    /\ results = <<>>

SpecStored == InitStored /\ [][NextCompat]_vars

\* The rendering half: any methods table, no call graph
InitRender ==
    /\ edges = <<>>
    /\ _graph = NoGraph
    /\ _id_to_vertex = <<>>
    /\ _vertex_to_id = <<>>
    /\ ret = NoRet
    /\ harmony_patches = <<>>
    /\ xml_changes = <<>>
    /\ report = NoReport
    /\ methods \in MethodTables(MaxId)
    /\ path_result = NoPathResult
    /\ threads = NoThreads
    /\ frames = NoFrames
    /\ stack = <<>>
    /\ results = <<>>

NextRender ==
    \/ BuildPathResult
    \/ ReturnPathResult

SpecRender == InitRender /\ [][NextRender]_vars

(***************************************************************************)
(* The call relation of the calls table, stated on method ids and          *)
(* independently of the vertex numbering and of the traversals above.      *)
(***************************************************************************)
Loaded == ~_graph.none
Vertices == CollectMethodIds(edges)
EdgeSet == Range(edges)
Callees(S) == { e[2] : e \in { d \in EdgeSet : d[1] \in S } }

\* the ids reached from a member of S by a walk of at most k edges
RECURSIVE WalkWithin(_, _)
WalkWithin(S, k) ==
    IF k < 0 THEN {}
    ELSE IF k = 0 THEN S
    ELSE WalkWithin(S \cup Callees(S), k - 1)

ReachableFrom(u) == WalkWithin({u}, Cardinality(Vertices))
IsWalk(p) == \A i \in 1..(Len(p) - 1) : <<p[i], p[i + 1]>> \in EdgeSet
NoRepeat(p) == \A i \in DOMAIN p : \A j \in DOMAIN p : p[i] = p[j] => i = j

\* the cycle-free paths that extend a member of P and arrive at v within k
\* more edges
RECURSIVE SimplePathsVia(_, _, _)
SimplePathsVia(P, v, k) ==
    IF k <= 0 \/ P = {} THEN {}
    ELSE LET Q == UNION { { Append(p, w) : w \in Callees({Last(p)}) \ Range(p) } :
                          p \in P }
         IN  { q \in Q : Last(q) = v }
             \cup SimplePathsVia({ q \in Q : Last(q) # v }, v, k - 1)

SimplePaths(u, v, k) == SimplePathsVia({<<u>>}, v, k)

(***************************************************************************)
(* C1. A path returned by find_path(u, v) starts at u, ends at v, follows  *)
(* edges (caller, callee) of the calls table, and no walk from u to v has  *)
(* fewer edges.                                                            *)
(***************************************************************************)
C1_FindPathShortest ==
    (ret.op = "find_path" /\ ~ret.none /\ ~ret.raised) =>
        /\ Len(ret.path) >= 1
        /\ ret.path[1] = ret.from_id
        /\ Last(ret.path) = ret.to_id
        /\ IsWalk(ret.path)
        /\ ret.to_id \notin WalkWithin({ret.from_id}, Len(ret.path) - 2)

\* the scenario of the specification: edges (1,2),(2,3),(1,3), path [1,3]
C1_Witness ==
    /\ edges = << <<1, 2>>, <<1, 3>>, <<2, 3>> >>
    /\ ret.op = "find_path" /\ ret.from_id = 1 /\ ret.to_id = 3
    /\ ~ret.none /\ ret.path = <<1, 3>>

(***************************************************************************)
(* The mod tables, stated on keys and mod names independently of the       *)
(* grouping queries.                                                       *)
(***************************************************************************)
PatchKeys == TypeNames \X MethodNames
XmlKeys == FileNames \X XPaths
\* the mods that have a record with key k
Touching(rows, kind, k) ==
    { rows[i].mod_name : i \in { j \in DOMAIN rows : KeyOf(kind, rows[j]) = k } }
Requested == Range(report.mods)
Reported(type, target) ==
    \E i \in DOMAIN report.conflicts :
        report.conflicts[i].type = type /\ report.conflicts[i].target = target

(***************************************************************************)
(* C2. check_compatibility reports a conflict for a target key exactly     *)
(* when at least two distinct requested mods have a record with that key.  *)
(***************************************************************************)
C2_ConflictIffTwoRequested ==
    report.called =>
        /\ \A k \in PatchKeys :
              Reported("direct_patch", PatchTarget(k)) <=>
              Cardinality(Touching(harmony_patches, "patch", k) \cap Requested) >= 2
        /\ \A k \in XmlKeys :
              Reported("xml_collision", XmlTarget(k)) <=>
              Cardinality(Touching(xml_changes, "xml", k) \cap Requested) >= 2

(***************************************************************************)
(* C3. On the loaded graph get_reachable(u) is exactly the set of ids      *)
(* reachable from u by zero or more out-edges, and get_reverse_reachable(u)*)
(* is exactly the set of ids from which u is reachable.                    *)
(***************************************************************************)
C3_ReachableExact ==
    /\ (Loaded /\ ret.op = "get_reachable" /\ ret.from_id \in Vertices) =>
            (~ret.raised /\ ret.ids = ReachableFrom(ret.from_id))
    /\ (Loaded /\ ret.op = "get_reverse_reachable" /\ ret.to_id \in Vertices) =>
            (~ret.raised
             /\ ret.ids = { u \in Vertices : ret.to_id \in ReachableFrom(u) })

\* a repeated edge and a self-loop (a cycle) below the start vertex
C3_Witness ==
    /\ edges = << <<1, 2>>, <<1, 2>>, <<2, 2>> >>
    /\ ret.op = "get_reachable" /\ ret.from_id = 1
    /\ ret.ids = {1, 2}

(***************************************************************************)
(* C4. For vertices u # v of the loaded graph every cycle-free path from u *)
(* to v of at most max_depth edges is among the paths find_all_paths       *)
(* returns, also when it shares an intermediate vertex with another one.   *)
(***************************************************************************)
C4_AllPathsComplete ==
    (/\ Loaded /\ ret.op = "find_all_paths"
     /\ ret.from_id \in Vertices /\ ret.to_id \in Vertices
     /\ ret.from_id # ret.to_id) =>
        SimplePaths(ret.from_id, ret.to_id, ret.max_depth) \subseteq Range(ret.paths)

\* two returned paths run through the same intermediate vertex 2
C4_Witness ==
    /\ ret.op = "find_all_paths" /\ ret.from_id = 1 /\ ret.to_id = 4
    /\ <<1, 2, 4>> \in Range(ret.paths)
    /\ <<1, 3, 2, 4>> \in Range(ret.paths)

(***************************************************************************)
(* C5. Every path find_all_paths(u, v, max_depth) returns starts at u,     *)
(* ends at v, follows edges of the calls table and has at most max_depth   *)
(* edges; the call raises nothing when longer paths exist.                 *)
(***************************************************************************)
C5_AllPathsSound ==
    ret.op = "find_all_paths" =>
        /\ ~ret.raised
        /\ \A i \in DOMAIN ret.paths :
              LET p == ret.paths[i]
              IN  /\ Len(p) >= 1
                  /\ p[1] = ret.from_id
                  /\ Last(p) = ret.to_id
                  /\ IsWalk(p)
                  /\ Len(p) - 1 <= ret.max_depth

\* a path is returned while a longer cycle-free one is left out
C5_Witness ==
    /\ ret.op = "find_all_paths" /\ ~ret.raised
    /\ ret.paths # <<>>
    /\ \E p \in SimplePaths(ret.from_id, ret.to_id, Cardinality(Vertices)) :
           Len(p) - 1 > ret.max_depth /\ p \notin Range(ret.paths)

(***************************************************************************)
(* C6. In every reported conflict mods_involved names no mod twice and is  *)
(* exactly the set of mods with a record on the conflict's key that are    *)
(* also requested.                                                         *)
(***************************************************************************)
C6_ModsInvolvedExact ==
    report.called =>
        \A i \in DOMAIN report.conflicts :
            LET c == report.conflicts[i]
                touching ==
                    IF c.type = "direct_patch"
                    THEN UNION { Touching(harmony_patches, "patch", k) :
                                 k \in { q \in PatchKeys : PatchTarget(q) = c.target } }
                    ELSE UNION { Touching(xml_changes, "xml", k) :
                                 k \in { q \in XmlKeys : XmlTarget(q) = c.target } }
            IN  /\ NoRepeat(c.mods_involved)
                /\ Range(c.mods_involved) = touching \cap Requested

(***************************************************************************)
(* C7. Duality: v is in get_reachable(u) exactly when u is in              *)
(* get_reverse_reachable(v).                                               *)
(***************************************************************************)
C7_Duality ==
    /\ ret.op = "get_reachable" =>
            \A v \in QueryIds :
                v \in ret.ids <=> ret.from_id \in get_reverse_reachable(v).ids
    /\ ret.op = "get_reverse_reachable" =>
            \A u \in QueryIds :
                u \in ret.ids <=> ret.to_id \in get_reachable(u).ids

C7_Witness ==
    /\ Loaded /\ ret.op = "get_reachable"
    /\ \E v \in ret.ids : v # ret.from_id /\ ret.from_id \notin ReachableFrom(v)

(***************************************************************************)
(* C8. When find_path(u, v) returns None, v is not in get_reachable(u).    *)
(***************************************************************************)
C8_NoPathNotReachable ==
    (ret.op = "find_path" /\ ret.none) =>
        ret.to_id \notin get_reachable(ret.from_id).ids

\* None for two vertices of the loaded graph, the reverse pair being joined
C8_Witness ==
    /\ Loaded /\ ret.op = "find_path" /\ ret.none
    /\ ret.from_id \in Vertices /\ ret.to_id \in Vertices
    /\ ret.from_id \in ReachableFrom(ret.to_id)

(***************************************************************************)
(* C9. For every id u that occurs in an edge, get_reachable(u) and         *)
(* get_reverse_reachable(u) contain u.                                     *)
(***************************************************************************)
C9_ContainsSelf ==
    /\ (ret.op = "get_reachable" /\ ret.from_id \in Vertices) =>
            ret.from_id \in ret.ids
    /\ (ret.op = "get_reverse_reachable" /\ ret.to_id \in Vertices) =>
            ret.to_id \in ret.ids

(***************************************************************************)
(* C10. A query with an id that occurs in no edge raises nothing and uses  *)
(* no default vertex: find_path returns None, find_all_paths the empty     *)
(* list, get_reachable and get_reverse_reachable the empty set.            *)
(***************************************************************************)
C10_AbsentIdEmpty ==
    /\ (ret.op = "find_path"
        /\ (ret.from_id \notin Vertices \/ ret.to_id \notin Vertices)) =>
            (~ret.raised /\ ret.none)
    /\ (ret.op = "find_all_paths"
        /\ (ret.from_id \notin Vertices \/ ret.to_id \notin Vertices)) =>
            (~ret.raised /\ ret.paths = <<>>)
    /\ (ret.op = "get_reachable" /\ ret.from_id \notin Vertices) =>
            (~ret.raised /\ ret.ids = {})
    /\ (ret.op = "get_reverse_reachable" /\ ret.to_id \notin Vertices) =>
            (~ret.raised /\ ret.ids = {})

\* the absent id 1 lies below the ids of the loaded graph, whose vertex 0
\* is id 2 and reaches id 3
C10_Witness ==
    /\ Loaded /\ edges = << <<2, 3>> >>
    /\ ret.op = "get_reachable" /\ ret.from_id = 1
    /\ ret.ids = {}

(***************************************************************************)
(* C11. build_path_result renders every id of the path: chain and files    *)
(* have one entry per element of the path, in path order, so their lengths *)
(* equal depth, and an id without a row in the methods table gets the      *)
(* "unknown" placeholder instead of being dropped.                         *)
(***************************************************************************)
C11_RendersEveryId ==
    path_result.called =>
        /\ path_result.depth = Len(path_result.path)
        /\ Len(path_result.chain) = path_result.depth
        /\ Len(path_result.files) = path_result.depth
        /\ \A i \in DOMAIN path_result.path :
              LET m == path_result.path[i]
              IN  IF m \in DOMAIN methods
                  THEN /\ path_result.chain[i] =
                              methods[m].type_name \o <<".">> \o methods[m].signature
                       /\ \/ path_result.files[i] = <<"u", "n", "k", "n", "o", "w", "n">>
                          \/ /\ methods[m].file_path # <<>>
                             /\ path_result.files[i] =
                                    methods[m].file_path[1] \o <<":", "1", "2">>
                  ELSE path_result.files[i] = <<"u", "n", "k", "n", "o", "w", "n">>

(***************************************************************************)
(* The reported conflicts as a set, each with the set of its mods, and the *)
(* row orders of a table.                                                  *)
(***************************************************************************)
ConflictSet(conflicts) ==
    { [type |-> c.type, severity |-> c.severity, target |-> c.target,
       mods |-> Range(c.mods_involved)] : c \in Range(conflicts) }
Perms(s) ==
    { [i \in DOMAIN s |-> s[f[i]]] :
        f \in { g \in [DOMAIN s -> DOMAIN s] : Range(g) = DOMAIN s } }
PatchConflictsOf(rows, mod_names) ==
    PatchConflicts(HavingSeveralMods(rows, "patch", GroupKeys(rows, "patch", {})),
                   mod_names)
XmlConflictsOf(rows, mod_names) ==
    XmlConflicts(HavingSeveralMods(rows, "xml", GroupKeys(rows, "xml", {})),
                 mod_names)

(***************************************************************************)
(* C12. Conflict detection does not depend on record order: with the rows  *)
(* of harmony_patches and of xml_changes stored in any other order the set *)
(* of reported conflicts (type, severity, target, set of involved mods) is *)
(* the one reported.                                                       *)
(***************************************************************************)
C12_OrderIndependent ==
    report.called =>
        LET PS == { ConflictSet(PatchConflictsOf(p, report.mods)) :
                    p \in Perms(harmony_patches) }
            XS == { ConflictSet(XmlConflictsOf(x, report.mods)) :
                    x \in Perms(xml_changes) }
        IN  \A a \in PS : \A b \in XS : a \cup b = ConflictSet(report.conflicts)

\* a conflict is reported and another row order lists its mods differently
C12_Witness ==
    /\ report.called
    /\ report.conflicts # <<>>
    /\ \E p \in Perms(harmony_patches) :
           /\ PatchConflictsOf(p, report.mods)
                  # PatchConflictsOf(harmony_patches, report.mods)
           /\ Len(p) = 3

(***************************************************************************)
(* C13. Severity is a function of the conflict kind: every direct_patch    *)
(* conflict of a report has severity high and every xml_collision conflict *)
(* has severity medium.                                                    *)
(***************************************************************************)
C13_SeverityByKind ==
    report.called =>
        \A i \in DOMAIN report.conflicts :
            LET c == report.conflicts[i]
            IN  /\ c.type = "direct_patch" => c.severity = "high"
                /\ c.type = "xml_collision" => c.severity = "medium"

\* a report with a conflict of each kind
C13_Witness ==
    /\ report.called
    /\ \E i \in DOMAIN report.conflicts : report.conflicts[i].type = "direct_patch"
    /\ \E i \in DOMAIN report.conflicts : report.conflicts[i].type = "xml_collision"

(***************************************************************************)
(* C14. is_compatible is true exactly when the conflict list is empty and  *)
(* is_compatible_with_caveats is true exactly when no conflict of the list *)
(* has severity high.                                                      *)
(***************************************************************************)
C14_CompatibleFlags ==
    report.called =>
        /\ is_compatible(report) <=> report.conflicts = <<>>
        /\ is_compatible_with_caveats(report) <=>
               ~(\E i \in DOMAIN report.conflicts :
                     report.conflicts[i].severity = "high")

\* conflicts of medium severity only: not compatible, compatible with caveats
C14_Witness ==
    /\ report.called
    /\ report.conflicts # <<>>
    /\ \A i \in DOMAIN report.conflicts : report.conflicts[i].severity = "medium"
    /\ ~is_compatible(report)
    /\ is_compatible_with_caveats(report)

(***************************************************************************)
(* C15. After load() the two maps are mutual inverses over exactly the ids *)
(* that occur in an edge: _id_to_vertex maps those N ids onto 0..N-1 in    *)
(* ascending id order, _vertex_to_id[_id_to_vertex[m]] = m, the graph has  *)
(* N vertices and an id that occurs in no edge has no vertex.              *)
(***************************************************************************)
C15_MapsInverse ==
    Loaded =>
        LET V == Vertices
            N == Cardinality(V)
        IN  /\ DOMAIN _id_to_vertex = V
            /\ { _id_to_vertex[m] : m \in V } = 0..(N - 1)
            /\ \A m \in V : \A o \in V :
                   m < o => _id_to_vertex[m] < _id_to_vertex[o]
            /\ DOMAIN _vertex_to_id = 0..(N - 1)
            /\ \A m \in V : _vertex_to_id[_id_to_vertex[m]] = m
            /\ _graph.n = N
            /\ _graph.method_id = [k \in 1..N |-> _vertex_to_id[k - 1]]

\* ids 2 and 3 only: id 1 has no vertex, id 2 is vertex 0
C15_Witness ==
    /\ ret.op = "load"
    /\ edges = << <<2, 3>>, <<3, 2>> >>
    /\ _id_to_vertex = (2 :> 0) @@ (3 :> 1)
    /\ _vertex_to_id = (0 :> 2) @@ (1 :> 3)

(***************************************************************************)
(* C16. For every id u that is a vertex of the loaded graph find_path(u,u) *)
(* returns the one-element path [u], with or without a self-loop or a      *)
(* cycle through u.                                                        *)
(***************************************************************************)
C16_SelfPath ==
    (/\ Loaded /\ ret.op = "find_path"
     /\ ret.from_id = ret.to_id /\ ret.from_id \in Vertices) =>
        (~ret.raised /\ ~ret.none /\ ret.path = <<ret.from_id>>)

\* id 1 has a self-loop and lies on the cycle 1 -> 2 -> 1
C16_Witness ==
    /\ Loaded /\ edges = << <<1, 1>>, <<1, 2>>, <<2, 1>> >>
    /\ ret.op = "find_path" /\ ret.from_id = 1 /\ ret.to_id = 1
    /\ ret.path = <<1>>

(***************************************************************************)
(* find_path on the fields f of another CallGraph (graph.py 61-71), the    *)
(* walks of a given number of edges, and the lexicographic order of paths. *)
(***************************************************************************)
FindPathOn(f, from_id, to_id) ==
    IF from_id \notin DOMAIN f.id_to_vertex \/ to_id \notin DOMAIN f.id_to_vertex
    THEN [none |-> TRUE, path |-> <<>>]
    ELSE LET paths == get_shortest_paths(f.graph, f.id_to_vertex[from_id],
                                         f.id_to_vertex[to_id], "out")
         IN  IF paths = <<>> \/ paths[1] = <<>>
             THEN [none |-> TRUE, path |-> <<>>]
             ELSE [none |-> FALSE, path |-> MapIds(f.vertex_to_id, paths[1])]
WalksOfLen(u, v, k) ==
    { p \in [1..(k + 1) -> Vertices] : p[1] = u /\ p[k + 1] = v /\ IsWalk(p) }
LexLeq(p, q) ==
    \/ p = q
    \/ \E i \in DOMAIN p :
           /\ i \in DOMAIN q
           /\ p[i] < q[i]
           /\ \A j \in 1..(i - 1) : p[j] = q[j]

(***************************************************************************)
(* C17. find_path is deterministic in the edge set: a CallGraph loaded     *)
(* from the same edges in any other order has the same vertex numbering    *)
(* and returns the same answer, and among the shortest paths the returned  *)
(* one is the first in the order of a breadth-first traversal that visits  *)
(* out-neighbours by ascending vertex index, which is the lexicographically*)
(* least one.                                                              *)
(***************************************************************************)
C17_Deterministic ==
    /\ ret.op = "load" =>
           \A es \in Perms(edges) :
               /\ LoadedFields(es).id_to_vertex = _id_to_vertex
               /\ LoadedFields(es).vertex_to_id = _vertex_to_id
    /\ (Loaded /\ ret.op = "find_path") =>
           /\ ~ret.raised
           /\ \A es \in Perms(edges) :
                  LET f == LoadedFields(es)
                  IN  FindPathOn(f, ret.from_id, ret.to_id)
                          = [none |-> ret.none, path |-> ret.path]
           /\ ~ret.none =>
                  \A p \in WalksOfLen(ret.from_id, ret.to_id, Len(ret.path) - 1) :
                      LexLeq(ret.path, p)

\* two shortest paths 1 -> 2 -> 4 and 1 -> 3 -> 4; the first is returned
C17_Witness ==
    /\ Loaded /\ edges = << <<1, 2>>, <<1, 3>>, <<2, 4>>, <<3, 4>> >>
    /\ ret.op = "find_path" /\ ret.from_id = 1 /\ ret.to_id = 4
    /\ ret.path = <<1, 2, 4>>

(***************************************************************************)
(* C18. Concurrent queries on a loaded graph are safe: under every         *)
(* interleaving of the threads' steps each call returns what the same call *)
(* returns when it runs alone, and the fields of the CallGraph stay those  *)
(* that load() built, so that no call sees a partly updated mapping.       *)
(***************************************************************************)
C18_ConcurrentQueriesSafe ==
    /\ CurrentFields = LoadedFields(edges)
    /\ \A t \in Threads :
           threads[t].pc = "done" =>
               LET c == threads[t]
               IN  CASE c.op = "find_path" ->
                          LET r == find_path(c.from_id, c.to_id)
                          IN  c.none = r.none /\ c.path = r.path
                     [] c.op = "find_all_paths" ->
                          c.paths = find_all_paths(c.from_id, c.to_id,
                                                   DefaultMaxDepth).paths
                     [] c.op = "get_reachable" ->
                          c.ids = get_reachable(c.from_id).ids
                     [] OTHER ->
                          c.ids = get_reverse_reachable(c.to_id).ids

\* find_path(1, 2) has returned [1, 2] while the other thread is between
\* its traversal of the graph and the translation of its result
C18_Witness ==
    /\ threads["t1"].pc = "done" /\ threads["t1"].op = "find_path"
    /\ threads["t1"].path = <<1, 2>>
    /\ threads["t2"].pc = "searched"
    /\ threads["t2"].op = "get_reverse_reachable"
    /\ frames["t2"].reachable_v # <<>>

(***************************************************************************)
(* The other queries on the fields f of another CallGraph (graph.py 75-85, *)
(* 110-116, 120-126).                                                      *)
(***************************************************************************)
FindAllPathsOn(f, from_id, to_id, max_depth) ==
    IF from_id \notin DOMAIN f.id_to_vertex \/ to_id \notin DOMAIN f.id_to_vertex
    THEN <<>>
    ELSE LET all_paths == _find_paths_recursive(f.graph, f.id_to_vertex[from_id],
                                                f.id_to_vertex[to_id], <<>>, {},
                                                max_depth)
         IN  [i \in DOMAIN all_paths |-> MapIds(f.vertex_to_id, all_paths[i])]
ReachableOn(f, id, mode) ==
    IF id \notin DOMAIN f.id_to_vertex THEN {}
    ELSE { f.vertex_to_id[v] :
           v \in Range(subcomponent(f.graph, f.id_to_vertex[id], mode)) }

(***************************************************************************)
(* C19. The graph loads on demand: a query returns what the same query     *)
(* returns on the CallGraph after load() on the same calls table, whether  *)
(* or not load() or another query ran before it.                           *)
(***************************************************************************)
C19_LoadsOnDemand ==
    LET f == LoadedFields(edges)
    IN  /\ ret.op = "find_path" =>
               [none |-> ret.none, path |-> ret.path]
                   = FindPathOn(f, ret.from_id, ret.to_id)
        /\ ret.op = "find_all_paths" =>
               ret.paths = FindAllPathsOn(f, ret.from_id, ret.to_id, ret.max_depth)
        /\ ret.op = "get_reachable" =>
               ret.ids = ReachableOn(f, ret.from_id, "out")
        /\ ret.op = "get_reverse_reachable" =>
               ret.ids = ReachableOn(f, ret.to_id, "in")

(***************************************************************************)
(* C20. load() dedupes the edge list: the loaded graph has the             *)
(* out-neighbour sequences, and find_all_paths returns the list of paths,  *)
(* of the graph loaded from the calls table without its repeated rows.     *)
(***************************************************************************)
RECURSIVE Dedupe(_, _)
Dedupe(es, seen) ==
    IF es = <<>> THEN <<>>
    ELSE IF Head(es) \in seen THEN Dedupe(Tail(es), seen)
    ELSE <<Head(es)>> \o Dedupe(Tail(es), seen \cup {Head(es)})

C20_LoadDedupes ==
    Loaded =>
        LET f == LoadedFields(Dedupe(edges, {}))
        IN  /\ \A v \in 0..(_graph.n - 1) :
                   neighbors(_graph, v, "out") = neighbors(f.graph, v, "out")
            /\ ret.op = "find_all_paths" =>
                   ret.paths = FindAllPathsOn(f, ret.from_id, ret.to_id,
                                              ret.max_depth)

(***************************************************************************)
(* C21. The graph is read-only after construction: once load() has run, no *)
(* find_path, find_all_paths, get_reachable or get_reverse_reachable call, *)
(* with ids of the graph or absent ones, changes _id_to_vertex,            *)
(* _vertex_to_id or the vertices and edges of the graph.                   *)
(***************************************************************************)
C21_ReadOnlyAfterLoad ==
    [][(Loaded /\ ret'.op \in { "find_path", "find_all_paths", "get_reachable",
                                "get_reverse_reachable" }) =>
           /\ _id_to_vertex' = _id_to_vertex
           /\ _vertex_to_id' = _vertex_to_id
           /\ _graph' = _graph]_vars

\* a query with an absent id has run on the loaded graph, which still is
\* the graph load() built
C21_Witness ==
    /\ Loaded /\ edges = << <<1, 2>>, <<2, 1>> >>
    /\ ret.op = "find_all_paths" /\ ret.from_id = 1 /\ ret.to_id = 3
    /\ CurrentFields = LoadedFields(edges)

(***************************************************************************)
(* C23. Every path find_all_paths(u, v, max_depth) returns is simple and   *)
(* stops at its first arrival at v: no id occurs twice in it and v is its  *)
(* last element only; for a vertex u = v of the loaded graph and           *)
(* max_depth >= 0 the result is exactly [[u]], also when u is on a cycle.  *)
(***************************************************************************)
C23_PathsSimple ==
    ret.op = "find_all_paths" =>
        /\ \A i \in DOMAIN ret.paths :
              LET p == ret.paths[i]
              IN  /\ NoRepeat(p)
                  /\ \A j \in DOMAIN p : p[j] = ret.to_id => j = Len(p)
        /\ (/\ Loaded /\ ret.from_id = ret.to_id
            /\ ret.from_id \in Vertices /\ ret.max_depth >= 0) =>
               ret.paths = << <<ret.from_id>> >>

\* id 1 lies on the cycle 1 -> 2 -> 1 and the depth allows to walk it
C23_Witness ==
    /\ Loaded /\ edges = << <<1, 2>>, <<2, 1>> >>
    /\ ret.op = "find_all_paths" /\ ret.from_id = 1 /\ ret.to_id = 1
    /\ ret.max_depth >= 1
    /\ ret.paths = << <<1>> >>

(***************************************************************************)
(* C24. In the summary of every report of check_compatibility              *)
(* total_conflicts is high_severity + medium_severity + low_severity: no   *)
(* conflict has a severity other than high, medium and low.                *)
(***************************************************************************)
C24_SummaryAddsUp ==
    report.called =>
        LET summary == to_dict(report).summary
        IN  /\ summary.total_conflicts = Len(report.conflicts)
            /\ summary.total_conflicts =
                   summary.high_severity + summary.medium_severity
                   + summary.low_severity
            /\ \A i \in DOMAIN report.conflicts :
                   report.conflicts[i].severity \in { "high", "medium", "low" }

\* a high conflict and a medium one: 2 = 1 + 1 + 0
C24_Witness ==
    /\ report.called
    /\ to_dict(report).summary.total_conflicts = 2
    /\ to_dict(report).summary.high_severity = 1
    /\ to_dict(report).summary.medium_severity = 1
    /\ to_dict(report).summary.low_severity = 0

(***************************************************************************)
(* C22. find_all_paths terminates for every calls table and every          *)
(* max_depth, with cycles and self-loops: every search that has started    *)
(* returns; no call goes into its loop with a depth below zero or at a     *)
(* vertex already on its path, so the path of every call is cycle-free and *)
(* the stack is never deeper than the number of vertices plus one; a       *)
(* negative max_depth returns the empty list.                              *)
(***************************************************************************)
WalkSafe ==
    /\ Len(stack) <= Cardinality(Vertices) + 1
    /\ \A i \in DOMAIN stack :
           /\ NoRepeat(stack[i].path)
           /\ stack[i].pc = "loop" =>
                  /\ stack[i].depth >= 0
                  /\ Last(stack[i].path) = stack[i].current
           /\ i > 1 => stack[i].depth >= 0 - 1
    /\ (ret.op = "find_all_paths" /\ ret.max_depth < 0) => ret.paths = <<>>

C22_Terminates ==
    /\ []WalkSafe
    /\ (ret.op = "running") ~> (ret.op = "find_all_paths")

\* the search has come back to a vertex on its path (the cycle 1 -> 2 -> 1)
\* with depth budget left, and will return from there
C22_Witness ==
    /\ ret.op = "running"
    /\ stack # <<>>
    /\ Top.pc = "enter"
    /\ Top.current \in Top.visited
    /\ Top.current # Top.target
    /\ Top.depth > 0

====
